---- MODULE Spec2Model ----
(***************************************************************************)
(* Model of go-search: the paged list-query builder (search/db.go) and the *)
(* search-parameter model (search/request.go and its sibling file).        *)
(*                                                                         *)
(* Strings that the code inspects character by character (the raw form     *)
(* values handed to strconv.Atoi and strings.Split) are sequences of       *)
(* one-character strings.  SQL text is a sequence of fragments; appending  *)
(* the empty fragment leaves the text unchanged, as string concatenation   *)
(* does.                                                                   *)
(***************************************************************************)
EXTENDS Integers, Sequences, FiniteSets, TLC

VARIABLES
  pc,           \* position of the running function
  sp,           \* the *SearchParams (NilSP when nil)
  contextJoins, \* PagedQuery's contextJoins argument
  params,       \* PagedQuery: params
  fromBit,      \* PagedQuery: fromBit
  whereBit,     \* PagedQuery: whereBit
  queryStmt,    \* PagedQuery: queryStmt
  err,          \* PagedQuery: the local `err`
  txn,          \* the *sql.Tx: "none", "open", "committed", "rolledback", "commit failed"
  rows,         \* page cursor: "none", "open", "closed"
  countRows,    \* count cursor: "none", "open", "closed"
  countValue,   \* the integer the count cursor delivers
  results,      \* PagedQuery: results
  count,        \* PagedQuery: count
  ret,          \* what PagedQuery returned
  dbLog,        \* database/sql calls made so far, in order
  table,        \* rows currently committed that match the statement's FROM/WHERE
  foundRows,    \* the connection's FOUND_ROWS() value
  matchedAtQuery, \* rows that matched when the page query ran
  inserted,     \* rows committed by other transactions since the call began
  failed,       \* the step of PagedQuery that failed ("" when none has)
  cancelled,    \* pqp.Context has been cancelled
  request,      \* raw form values of the HTTP request
  spErr,        \* error returned by ExtractSearchParamsFromUrl / EnsureSingleScope
  sp0,          \* the SearchParams as ExtractSearchParamsFromUrl returned it
  lastCall,     \* the SearchParams function called last ("" when none)
  lastCount,    \* the count passed to the last SetTotalPages (-1 when none)
  repeated,     \* the last SetTotalPages was passed the count of the one before
  doLog,        \* DoList: the functions it has called, in order
  response      \* DoList: what has been written to the http.ResponseWriter

vars == <<pc, sp, contextJoins, params, fromBit, whereBit, queryStmt, err, txn,
          rows, countRows, countValue, results, count, ret, dbLog, table,
          foundRows, matchedAtQuery, inserted, failed, cancelled, request, spErr,
          sp0, lastCall, lastCount, repeated, doLog, response>>

queryVars == <<contextJoins, params, fromBit, whereBit, queryStmt, err, txn,
               rows, countRows, countValue, results, count, ret, dbLog, table,
               foundRows, matchedAtQuery, inserted, failed, cancelled>>

----
\* Bounds of the model.
MaxScopes == 2
MaxTerms == 1
MaxContextJoins == 1
MaxPageIndex == 2
MaxInserts == 1
MaxItemsPerPageLen == 3
MaxPageIndexLen == 1
MaxScopesLen == 1

\* Values the inputs are drawn from.
ScopeNames == {"active", "mine", "bogus"}
TermNames == {"widget", "%"}
SortKeys == {"", "name", "bogus"}
ItemsPerPageValues == {20, 250}
TableSizes == {0, 45}
RawDigits == {"-", "0", "2", "5"}
RawScopeChars == {"a", ","}
RawTermValues == {<<>>, <<"w", ",", "v">>}
RawSortValues == {"", "name"}
RawPageDigits == {"-", "0", "2"}
Counts == {0, 100, 101}

----
\* Values standing for Go's nil.
NilSP == [nil |-> TRUE]
NilErr == [kind |-> "nil", names |-> "", cause |-> "nil"]
NilResults == [nil |-> TRUE, offset |-> 0, n |-> 0]

\* RestError constructors as PagedQuery uses them: kind, the value the message
\* names, and whether a cause is wrapped.
BadRequestError(names, cause) == [kind |-> "BadRequest", names |-> names, cause |-> cause]
UnprocessableEntityError(names, cause) == [kind |-> "UnprocessableEntity", names |-> names, cause |-> cause]
ServerError(names, cause) == [kind |-> "Server", names |-> names, cause |-> cause]

SeqsUpTo(S, n) == UNION {[1..k -> S] : k \in 0..n}

\* s + f for strings, on fragment sequences.
Cat(s, f) == IF f = "" THEN s ELSE Append(s, f)

Min(a, b) == IF a < b THEN a ELSE b
Max(a, b) == IF a > b THEN a ELSE b

----
\* strconv.Itoa: decimal digits, most significant first, '-' for negatives.
DigitChars == <<"0", "1", "2", "3", "4", "5", "6", "7", "8", "9">>

RECURSIVE ItoaDigits(_)
ItoaDigits(n) ==
  IF n < 10 THEN <<DigitChars[n + 1]>>
  ELSE Append(ItoaDigits(n \div 10), DigitChars[(n % 10) + 1])

Itoa(n) == IF n < 0 THEN <<"-">> \o ItoaDigits(0 - n) ELSE ItoaDigits(n)

----
\* The query descriptor of one resource type.
ResourceName == "things"
FieldSpec == "t.id, t.name "
GeneralFrom == <<"FROM things t ">>

\* JoinTest of the "mine" scope: when a context join already joins the owners
\* table, reuse it instead of joining it again.
OwnersJoin == "JOIN owners o ON t.owner=o.id "
OwnersOverride == "/* owners already joined */ "

JoinTestDedupe(cjs) ==
  IF \E i \in 1..Len(cjs) : cjs[i].JoinClause = OwnersJoin
  THEN [useIt |-> TRUE, override |-> OwnersOverride]
  ELSE [useIt |-> FALSE, override |-> ""]

StatusJoin == "JOIN status s ON t.status=s.id "

\* JoinData values; JoinTest is "nil" or the name of the test.
ScopeJoins ==
  [active |-> [JoinClause |-> StatusJoin, WhereClause |-> "AND t.active=? ",
               JoinParams |-> <<"1">>, JoinTest |-> "nil"],
   mine   |-> [JoinClause |-> OwnersJoin, WhereClause |-> "AND o.uid=? ",
               JoinParams |-> <<"u1">>, JoinTest |-> "dedupe"]]

SortMap == [x \in {"", "name"} |-> IF x = "" THEN "t.id " ELSE "t.name "]

ContextJoinValues ==
  {[JoinClause |-> OwnersJoin, WhereClause |-> "AND o.id=? ",
    JoinParams |-> <<"o7">>, JoinTest |-> "nil"],
   [JoinClause |-> "JOIN malls m ON t.mall=m.id AND m.id=? ", WhereClause |-> "",
    JoinParams |-> <<"m3">>, JoinTest |-> "nil"]}

\* SearchWhereGenerator: one LIKE predicate per term over two columns; a term
\* that is only a wildcard is refused.
SearchWhereGenerator(term, ps) ==
  IF term = "%" THEN [whereTerm |-> "", params |-> ps, err |-> "bad term"]
  ELSE [whereTerm |-> "AND (t.name LIKE ? OR t.note LIKE ?) ",
        params |-> ps \o <<term, term>>, err |-> "nil"]

----
\* PagedQuery, lines 84-151: assembling the statement.

\* lines 88-92
RECURSIVE ContextJoinLoop(_, _, _)
ContextJoinLoop(cjs, i, acc) ==
  IF i > Len(cjs) THEN acc
  ELSE ContextJoinLoop(cjs, i + 1,
         [fromBit  |-> Cat(acc.fromBit, cjs[i].JoinClause),
          whereBit |-> Cat(acc.whereBit, cjs[i].WhereClause),
          params   |-> acc.params \o cjs[i].JoinParams])

\* lines 98-107 with the JoinTest never consulted
ScopeJoinClauseIgnoresTest(val, cjs) == val.JoinClause

\* lines 98-107: the JOIN fragment a known scope contributes
ScopeJoinClause(val, cjs) ==
  IF val.JoinTest = "nil" THEN val.JoinClause
  ELSE LET t == JoinTestDedupe(cjs)
       IN IF t.useIt THEN t.override ELSE val.JoinClause

\* lines 94-111 with an unknown scope passed over instead of refused
RECURSIVE ScopeLoopSkipsUnknown(_, _, _, _)
ScopeLoopSkipsUnknown(scopes, cjs, i, acc) ==
  IF i > Len(scopes) THEN [err |-> NilErr, acc |-> acc]
  ELSE IF scopes[i] \notin DOMAIN ScopeJoins
       THEN ScopeLoopSkipsUnknown(scopes, cjs, i + 1, acc)
       ELSE LET val == ScopeJoins[scopes[i]]
            IN ScopeLoopSkipsUnknown(scopes, cjs, i + 1,
                 [fromBit  |-> Cat(acc.fromBit, ScopeJoinClause(val, cjs)),
                  whereBit |-> Cat(acc.whereBit, val.WhereClause),
                  params   |-> acc.params \o val.JoinParams])

\* lines 94-111 with a scope's parameters put in front of those bound so far
RECURSIVE ScopeLoopParamsFirst(_, _, _, _)
ScopeLoopParamsFirst(scopes, cjs, i, acc) ==
  IF i > Len(scopes) THEN [err |-> NilErr, acc |-> acc]
  ELSE IF scopes[i] \notin DOMAIN ScopeJoins
       THEN [err |-> BadRequestError(scopes[1], "nil"), acc |-> acc]
       ELSE LET val == ScopeJoins[scopes[i]]
            IN ScopeLoopParamsFirst(scopes, cjs, i + 1,
                 [fromBit  |-> Cat(acc.fromBit, ScopeJoinClause(val, cjs)),
                  whereBit |-> Cat(acc.whereBit, val.WhereClause),
                  params   |-> val.JoinParams \o acc.params])

\* lines 94-111
RECURSIVE ScopeLoop(_, _, _, _)
ScopeLoop(scopes, cjs, i, acc) ==
  IF i > Len(scopes) THEN [err |-> NilErr, acc |-> acc]
  ELSE IF scopes[i] \notin DOMAIN ScopeJoins
       THEN [err |-> BadRequestError(scopes[1], "nil"), acc |-> acc]
       ELSE LET val == ScopeJoins[scopes[i]]
            IN ScopeLoop(scopes, cjs, i + 1,
                 [fromBit  |-> Cat(acc.fromBit, ScopeJoinClause(val, cjs)),
                  whereBit |-> Cat(acc.whereBit, val.WhereClause),
                  params   |-> acc.params \o val.JoinParams])

\* lines 113-122
RECURSIVE TermLoop(_, _, _)
TermLoop(terms, i, acc) ==
  IF i > Len(terms) THEN [err |-> NilErr, acc |-> acc]
  ELSE LET g == SearchWhereGenerator(terms[i], acc.params)
       IN IF g.err # "nil"
          THEN [err |-> BadRequestError(terms[i], g.err), acc |-> acc]
          ELSE TermLoop(terms, i + 1,
                 [fromBit  |-> acc.fromBit,
                  whereBit |-> Cat(acc.whereBit, g.whereTerm),
                  params   |-> g.params])

\* lines 133-137 with an unknown key falling back to the default order
OrderByClauseLenient(sortKey) ==
  IF sortKey \in DOMAIN SortMap
  THEN [ok |-> TRUE, val |-> SortMap[sortKey]]
  ELSE [ok |-> TRUE, val |-> SortMap[""]]

\* lines 133-137: the ORDER BY clause of a sort key
OrderByClause(sortKey) ==
  IF sortKey \in DOMAIN SortMap
  THEN [ok |-> TRUE, val |-> SortMap[sortKey]]
  ELSE [ok |-> FALSE, val |-> ""]

\* line 139 with the 1-based page index used as it is
LimitOffsetOneBased(s) == s.PageInfo.PageIndex * s.PageInfo.ItemsPerPage

\* line 139: the OFFSET of the LIMIT clause
LimitOffset(s) == (s.PageInfo.PageIndex - 1) * s.PageInfo.ItemsPerPage

\* lines 131-139
LimitAndOrderBy(s) ==
  Cat(<<"ORDER BY ">>, OrderByClause(s.Sort).val) \o <<"LIMIT ">> \o Itoa(LimitOffset(s))
    \o <<", ">> \o Itoa(s.PageInfo.ItemsPerPage)

\* lines 141-151
QueryStmt(s, acc) ==
  <<"SELECT DISTINCT SQL_CALC_FOUND_ROWS ", FieldSpec>> \o acc.fromBit
    \o (IF acc.whereBit = <<"WHERE TRUE ">> THEN <<>> ELSE acc.whereBit)
    \o LimitAndOrderBy(s)

\* a return statement of PagedQuery
Return(res, cnt, e) ==
  /\ pc' = "returned"
  /\ ret' = [results |-> res, count |-> cnt, err |-> e]

\* lines 84-151, up to the first database call
Assemble ==
  /\ pc = "PagedQuery"
  /\ LET a0 == [fromBit |-> GeneralFrom, whereBit |-> <<"WHERE TRUE ">>, params |-> <<>>]
         a1 == ContextJoinLoop(contextJoins, 1, a0)
         a2 == ScopeLoop(sp.Scopes, contextJoins, 1, a1)
         a3 == TermLoop(sp.Terms, 1, a2.acc)
     IN IF a2.err # NilErr
        THEN /\ Return(NilResults, -1, a2.err)
             /\ fromBit' = a2.acc.fromBit /\ whereBit' = a2.acc.whereBit
             /\ params' = a2.acc.params /\ UNCHANGED queryStmt
        ELSE IF a3.err # NilErr
        THEN /\ Return(NilResults, -1, a3.err)
             /\ fromBit' = a3.acc.fromBit /\ whereBit' = a3.acc.whereBit
             /\ params' = a3.acc.params /\ UNCHANGED queryStmt
        ELSE IF ~OrderByClause(sp.Sort).ok
        THEN /\ Return(NilResults, -1, UnprocessableEntityError(sp.Sort, "nil"))
             /\ fromBit' = a3.acc.fromBit /\ whereBit' = a3.acc.whereBit
             /\ params' = a3.acc.params /\ UNCHANGED queryStmt
        ELSE /\ pc' = "BeginTx"
             /\ fromBit' = a3.acc.fromBit
             /\ whereBit' = IF a3.acc.whereBit = <<"WHERE TRUE ">> THEN <<>> ELSE a3.acc.whereBit
             /\ params' = a3.acc.params
             /\ queryStmt' = QueryStmt(sp, a3.acc)
             /\ UNCHANGED ret
  /\ UNCHANGED <<sp, contextJoins, err, txn, rows, countRows, countValue, results,
                 count, dbLog, table, foundRows, matchedAtQuery, inserted,
                 failed, cancelled, request, spErr, sp0, lastCall, lastCount,
                 repeated, doLog, response>>

----
\* PagedQuery, lines 160-214: running the statement in a transaction.

paramVars == <<sp, contextJoins, params, fromBit, whereBit, queryStmt,
               request, spErr, sp0, lastCall, lastCount, repeated, cancelled,
               doLog, response>>

\* one more call on database/sql
Logged(op) == dbLog' = Append(dbLog, op)
Logged2(op1, op2) == dbLog' = dbLog \o <<op1, op2>>
Logged3(op1, op2, op3) == dbLog' = dbLog \o <<op1, op2, op3>>

\* the error value of a failed database/sql call
DbError == "db error"

\* lines 161-165.  BeginTx fails on a context that is already cancelled.
\* When BeginTx fails the *sql.Tx is nil and line 163 calls
\* Rollback on it: a nil-pointer panic, PagedQuery does not return.
BeginTx ==
  /\ pc = "BeginTx"
  /\ \E ok \in (IF cancelled THEN {FALSE} ELSE BOOLEAN) :
       IF ok
       THEN /\ txn' = "open" /\ err' = "nil" /\ pc' = "Prepare"
            /\ Logged("BeginTx") /\ UNCHANGED failed
       ELSE /\ txn' = "none" /\ err' = DbError /\ pc' = "panicked" /\ failed' = "BeginTx"
            /\ Logged("BeginTx")
  /\ UNCHANGED <<paramVars, rows, countRows, countValue, results, count, ret,
                 table, foundRows, matchedAtQuery, inserted>>

\* lines 167-172.  The server parses the statement here; it refuses a negative
\* LIMIT offset.
Prepare ==
  /\ pc = "Prepare"
  /\ \E ok \in (IF LimitOffset(sp) < 0 THEN {FALSE} ELSE BOOLEAN) :
       IF ok
       THEN /\ err' = "nil" /\ pc' = "Query" /\ Logged("Prepare") /\ UNCHANGED failed
            /\ UNCHANGED <<txn, ret>>
       ELSE /\ err' = DbError /\ txn' = "rolledback"
            /\ Logged2("Prepare", "Rollback") /\ failed' = "Prepare"
            /\ Return(NilResults, 0, ServerError(ResourceName, DbError))
  /\ UNCHANGED <<paramVars, rows, countRows, countValue, results, count,
                 table, foundRows, matchedAtQuery, inserted>>

\* lines 174-179.  SQL_CALC_FOUND_ROWS makes the server remember, for this
\* connection, how many rows the statement matched without its LIMIT.
Query ==
  /\ pc = "Query"
  /\ \E ok \in BOOLEAN :
       IF ok
       THEN /\ err' = "nil" /\ pc' = "ResultBuilder" /\ Logged("Query") /\ UNCHANGED failed
            /\ rows' = "open"
            /\ foundRows' = table
            /\ matchedAtQuery' = table
            /\ UNCHANGED <<txn, ret>>
       ELSE /\ err' = DbError /\ txn' = "rolledback"
            /\ Logged2("Query", "Rollback") /\ failed' = "Query"
            /\ Return(NilResults, 0, ServerError(ResourceName, DbError))
            /\ UNCHANGED <<rows, foundRows, matchedAtQuery>>
  /\ UNCHANGED <<paramVars, countRows, countValue, results, count, table, inserted>>

\* the page the cursor delivers: rows offset+1 .. offset+n of the sort order
PageOf(matched, s) ==
  [nil |-> FALSE, offset |-> LimitOffset(s),
   n |-> Min(s.PageInfo.ItemsPerPage, Max(0, matched - LimitOffset(s)))]

\* lines 183-188 without the Rollback of line 186
BuildResultsNoRollback ==
  /\ pc = "ResultBuilder"
  /\ \E ok \in BOOLEAN :
       IF ok
       THEN /\ err' = "nil" /\ pc' = "rows.Close"
            /\ results' = PageOf(matchedAtQuery, sp)
            /\ UNCHANGED <<txn, rows, ret, dbLog, failed>>
       ELSE /\ err' = "decode error" /\ rows' = "closed"
            /\ Logged("rows.Close") /\ failed' = "ResultBuilder"
            /\ Return(NilResults, 0, ServerError(ResourceName, "decode error"))
            /\ UNCHANGED <<results, txn>>
  /\ UNCHANGED <<paramVars, countRows, countValue, count, table, foundRows,
                 matchedAtQuery, inserted>>

\* lines 183-188
BuildResults ==
  /\ pc = "ResultBuilder"
  /\ \E ok \in BOOLEAN :
       IF ok
       THEN /\ err' = "nil" /\ pc' = "rows.Close"
            /\ results' = PageOf(matchedAtQuery, sp)
            /\ UNCHANGED <<txn, rows, ret, dbLog, failed>>
       ELSE /\ err' = "decode error" /\ rows' = "closed" /\ txn' = "rolledback"
            /\ Logged2("rows.Close", "Rollback") /\ failed' = "ResultBuilder"
            /\ Return(NilResults, 0, ServerError(ResourceName, "decode error"))
            /\ UNCHANGED results
  /\ UNCHANGED <<paramVars, countRows, countValue, count, table, foundRows,
                 matchedAtQuery, inserted>>

\* line 192 left out: the page cursor stays open
RowsCloseLeftOut ==
  /\ pc = "rows.Close"
  /\ pc' = "CountQuery"
  /\ UNCHANGED <<paramVars, err, txn, rows, countRows, countValue, results, count,
                 ret, dbLog, table, foundRows, matchedAtQuery, inserted, failed>>

\* line 192
RowsClose ==
  /\ pc = "rows.Close"
  /\ rows' = "closed"
  /\ Logged("rows.Close")
  /\ pc' = "CountQuery"
  /\ UNCHANGED failed
  /\ UNCHANGED <<paramVars, err, txn, countRows, countValue, results, count, ret,
                 table, foundRows, matchedAtQuery, inserted>>

\* FOUND_ROWS() replaced by a fresh count of the table
FoundRowsRecount == table

\* what SELECT FOUND_ROWS() evaluates to on this connection
FoundRows == foundRows

\* lines 194-198
CountQuery ==
  /\ pc = "CountQuery"
  /\ \E ok \in BOOLEAN :
       IF ok
       THEN /\ err' = "nil" /\ pc' = "countRows.Next" /\ Logged("CountQuery") /\ UNCHANGED failed
            /\ countRows' = "open"
            /\ countValue' = FoundRows
            /\ UNCHANGED <<txn, ret>>
       ELSE /\ err' = DbError /\ txn' = "rolledback"
            /\ Logged2("CountQuery", "Rollback") /\ failed' = "CountQuery"
            /\ Return(NilResults, 0, ServerError(ResourceName, DbError))
            /\ UNCHANGED <<countRows, countValue>>
  /\ UNCHANGED <<paramVars, rows, results, count, table, foundRows,
                 matchedAtQuery, inserted>>

\* lines 201-205: `err` is still the nil of line 194 when Next reports no row
CountNext ==
  /\ pc = "countRows.Next"
  /\ \E ok \in BOOLEAN :
       IF ok
       THEN /\ pc' = "countRows.Scan" /\ Logged("Next") /\ UNCHANGED failed
            /\ UNCHANGED <<txn, countRows, ret>>
       ELSE /\ countRows' = "closed" /\ txn' = "rolledback"
            /\ Logged3("Next", "countRows.Close", "Rollback") /\ failed' = "Next"
            /\ Return(NilResults, 0, ServerError(ResourceName, err))
  /\ UNCHANGED <<paramVars, err, rows, countValue, results, count, table,
                 foundRows, matchedAtQuery, inserted>>

\* lines 206-210 with the decoded page handed back beside the error
CountScanKeepsResults ==
  /\ pc = "countRows.Scan"
  /\ \E ok \in BOOLEAN :
       IF ok
       THEN /\ err' = "nil" /\ count' = countValue /\ pc' = "countRows.Close"
            /\ Logged("Scan") /\ UNCHANGED failed
            /\ UNCHANGED <<txn, countRows, ret>>
       ELSE /\ err' = "scan error" /\ countRows' = "closed" /\ txn' = "rolledback"
            /\ Logged3("Scan", "countRows.Close", "Rollback") /\ failed' = "Scan"
            /\ Return(results, 0, ServerError(ResourceName, "scan error"))
            /\ UNCHANGED count
  /\ UNCHANGED <<paramVars, rows, countValue, results, table, foundRows,
                 matchedAtQuery, inserted>>

\* lines 206-210
CountScan ==
  /\ pc = "countRows.Scan"
  /\ \E ok \in BOOLEAN :
       IF ok
       THEN /\ err' = "nil" /\ count' = countValue /\ pc' = "countRows.Close"
            /\ Logged("Scan") /\ UNCHANGED failed
            /\ UNCHANGED <<txn, countRows, ret>>
       ELSE /\ err' = "scan error" /\ countRows' = "closed" /\ txn' = "rolledback"
            /\ Logged3("Scan", "countRows.Close", "Rollback") /\ failed' = "Scan"
            /\ Return(NilResults, 0, ServerError(ResourceName, "scan error"))
            /\ UNCHANGED count
  /\ UNCHANGED <<paramVars, rows, countValue, results, table, foundRows,
                 matchedAtQuery, inserted>>

\* line 211
CountClose ==
  /\ pc = "countRows.Close"
  /\ countRows' = "closed"
  /\ Logged("countRows.Close")
  /\ pc' = "Commit"
  /\ UNCHANGED failed
  /\ UNCHANGED <<paramVars, err, txn, rows, countValue, results, count, ret,
                 table, foundRows, matchedAtQuery, inserted>>

\* lines 212-214.  Commit looks at the transaction's context first: with a
\* cancelled context it commits nothing and returns the context's error,
\* and database/sql rolls the transaction back.  Commit's own result is not
\* looked at.
Commit ==
  /\ pc = "Commit"
  /\ \E ok \in (IF cancelled THEN {FALSE} ELSE BOOLEAN) :
       txn' = IF ok THEN "committed"
              ELSE IF cancelled THEN "rolledback" ELSE "commit failed"
  /\ Logged("Commit")
  /\ Return(results, count, NilErr)
  /\ UNCHANGED failed
  /\ UNCHANGED <<paramVars, err, rows, countRows, countValue, results, count,
                 table, foundRows, matchedAtQuery, inserted>>

\* the caller's request context is cancelled while PagedQuery runs.  The
\* statements of the open transaction race with the rollback database/sql
\* starts, so each may still succeed or fail.
CancelContext ==
  /\ pc \in {"PagedQuery", "BeginTx", "Prepare", "Query", "ResultBuilder",
             "rows.Close", "CountQuery", "countRows.Next", "countRows.Scan",
             "countRows.Close", "Commit"}
  /\ ~cancelled
  /\ cancelled' = TRUE
  /\ UNCHANGED <<pc, sp, contextJoins, params, fromBit, whereBit, queryStmt,
                 request, spErr, sp0, lastCall, lastCount, repeated, doLog,
                 response, err, txn,
                 rows, countRows, countValue, results, count, ret, dbLog, table,
                 foundRows, matchedAtQuery, inserted, failed>>

\* another connection inserts a row the statement matches, and commits
InsertByOtherTxn ==
  /\ pc \in {"PagedQuery", "BeginTx", "Prepare", "Query", "ResultBuilder",
             "rows.Close", "CountQuery", "countRows.Next", "countRows.Scan",
             "countRows.Close", "Commit"}
  /\ inserted < MaxInserts
  /\ table' = table + 1
  /\ inserted' = inserted + 1
  /\ UNCHANGED <<pc, paramVars, err, txn, rows, countRows, countValue, results,
                 count, ret, dbLog, foundRows, matchedAtQuery, failed>>

----
PageInfos ==
  [PageIndex : 0..MaxPageIndex, ItemsPerPage : ItemsPerPageValues,
   TotalItemCount : {0}, TotalPageCount : {0}]

NoRequest == [scopes |-> <<>>, terms |-> <<>>, sort |-> "",
              pageIndex |-> <<>>, itemsPerPage |-> <<>>]

NoResponse == [kind |-> "none", items |-> NilResults, sp |-> NilSP, err |-> NilErr]

NoReturn == [results |-> NilResults, count |-> 0, err |-> NilErr]

\* PagedQuery is called with a SearchParams a request handler built
Init ==
  /\ pc = "PagedQuery"
  /\ sp \in [Scopes : SeqsUpTo(ScopeNames, MaxScopes),
             Terms : SeqsUpTo(TermNames, MaxTerms),
             Sort : SortKeys,
             PageInfo : PageInfos]
  /\ contextJoins \in SeqsUpTo(ContextJoinValues, MaxContextJoins)
  /\ params = <<>> /\ fromBit = <<>> /\ whereBit = <<>> /\ queryStmt = <<>>
  /\ err = "nil" /\ txn = "none" /\ rows = "none" /\ countRows = "none"
  /\ countValue = 0 /\ results = NilResults /\ count = 0 /\ ret = NoReturn
  /\ dbLog = <<>>
  /\ table \in TableSizes
  /\ foundRows = 0 /\ matchedAtQuery = 0 /\ inserted = 0 /\ failed = ""
  /\ cancelled = FALSE
  /\ request = NoRequest /\ spErr = NilErr /\ sp0 = sp
  /\ lastCall = "" /\ lastCount = -1 /\ repeated = FALSE
  /\ doLog = <<>> /\ response = NoResponse

Next ==
  \/ Assemble
  \/ BeginTx
  \/ Prepare
  \/ Query
  \/ BuildResults
  \/ RowsClose
  \/ CountQuery
  \/ CountNext
  \/ CountScan
  \/ CountClose
  \/ Commit
  \/ InsertByOtherTxn
  \/ CancelContext

Spec == Init /\ [][Next]_vars

----
\* The search-parameter model.

\* strconv.Atoi: an optional sign, then one or more decimal digits.
DigitValue(c) == CHOOSE d \in 0..9 : DigitChars[d + 1] = c

IsDigit(c) == \E d \in 0..9 : DigitChars[d + 1] = c

RECURSIVE ParseDigits(_, _)
ParseDigits(cs, n) ==
  IF cs = <<>> THEN n ELSE ParseDigits(Tail(cs), n * 10 + DigitValue(cs[1]))

Atoi(cs) ==
  LET signed == cs # <<>> /\ cs[1] \in {"-", "+"}
      body == IF signed THEN Tail(cs) ELSE cs
  IN IF body = <<>> \/ \E i \in 1..Len(body) : ~IsDigit(body[i])
     THEN [ok |-> FALSE, val |-> 0]
     ELSE [ok |-> TRUE,
           val |-> IF cs[1] = "-" THEN 0 - ParseDigits(body, 0)
                   ELSE ParseDigits(body, 0)]

\* the characters of a raw value as one string
RECURSIVE Str(_)
Str(cs) == IF cs = <<>> THEN "" ELSE cs[1] \o Str(Tail(cs))

\* strings.Split(s, ","): the pieces between the commas, empty ones included
RECURSIVE SplitFrom(_, _, _)
SplitFrom(cs, cur, acc) ==
  IF cs = <<>> THEN Append(acc, Str(cur))
  ELSE IF cs[1] = "," THEN SplitFrom(Tail(cs), <<>>, Append(acc, Str(cur)))
  ELSE SplitFrom(Tail(cs), Append(cur, cs[1]), acc)

Split(cs) == SplitFrom(cs, <<>>, <<>>)

\* request.go lines 18-29: a list field of the form
ListField(cs) == IF cs # <<>> THEN Split(cs) ELSE <<>>

\* request.go lines 49-53 without the upper limit
ClampItemsPerPageLowOnly(v) == IF v < 20 THEN 20 ELSE v

\* request.go lines 49-53
ClampItemsPerPage(v) == IF v < 20 THEN 20 ELSE IF v > 250 THEN 250 ELSE v

Requests ==
  [scopes : SeqsUpTo(RawScopeChars, MaxScopesLen),
   terms : RawTermValues,
   sort : RawSortValues,
   pageIndex : SeqsUpTo(RawPageDigits, MaxPageIndexLen),
   itemsPerPage : SeqsUpTo(RawDigits, MaxItemsPerPageLen)]

\* request.go lines 15-60
ExtractOf(r) ==
  LET pi == Atoi(r.pageIndex)
      ipp == Atoi(r.itemsPerPage)
  IN IF r.pageIndex # <<>> /\ ~pi.ok
     THEN [sp |-> NilSP, err |-> BadRequestError("pageIndex", "syntax")]
     ELSE IF r.itemsPerPage # <<>> /\ ~ipp.ok
     THEN [sp |-> NilSP, err |-> BadRequestError("itemsPerPage", "syntax")]
     ELSE [sp |-> [Scopes |-> ListField(r.scopes),
                   Terms |-> ListField(r.terms),
                   Sort |-> r.sort,
                   PageInfo |->
                     [PageIndex |-> IF r.pageIndex # <<>> THEN pi.val ELSE 1,
                      ItemsPerPage |-> IF r.itemsPerPage # <<>>
                                       THEN ClampItemsPerPage(ipp.val) ELSE 100,
                      TotalItemCount |-> 0, TotalPageCount |-> 0]],
           err |-> NilErr]

ExtractSearchParamsFromUrl ==
  /\ pc = "request"
  /\ \E r \in Requests :
       /\ request' = r
       /\ sp' = ExtractOf(r).sp
       /\ sp0' = ExtractOf(r).sp
       /\ spErr' = ExtractOf(r).err
       /\ pc' = IF ExtractOf(r).err = NilErr THEN "extracted" ELSE "rejected"
  /\ lastCall' = "ExtractSearchParamsFromUrl"
  /\ UNCHANGED <<queryVars, lastCount, repeated, doLog, response>>

\* part_000 lines 90-93 without the page for the remainder
TotalPageCountFloor(cnt, itemsPerPage) == cnt \div itemsPerPage

\* part_000 lines 90-93
TotalPageCount(cnt, itemsPerPage) ==
  (cnt \div itemsPerPage) + (IF cnt % itemsPerPage > 0 THEN 1 ELSE 0)

\* part_000 lines 87-95 adding the count to the total already there
WithTotalPagesAdding(s, cnt) ==
  [s EXCEPT !.PageInfo =
     [PageIndex |-> s.PageInfo.PageIndex,
      ItemsPerPage |-> s.PageInfo.ItemsPerPage,
      TotalItemCount |-> s.PageInfo.TotalItemCount + cnt,
      TotalPageCount |-> TotalPageCount(s.PageInfo.TotalItemCount + cnt,
                                        s.PageInfo.ItemsPerPage)]]

\* part_000 lines 87-95
WithTotalPages(s, cnt) ==
  [s EXCEPT !.PageInfo =
     [PageIndex |-> s.PageInfo.PageIndex,
      ItemsPerPage |-> s.PageInfo.ItemsPerPage,
      TotalItemCount |-> cnt,
      TotalPageCount |-> TotalPageCount(cnt, s.PageInfo.ItemsPerPage)]]

SetTotalPages ==
  /\ pc = "extracted"
  /\ \E cnt \in Counts :
       /\ sp' = WithTotalPages(sp, cnt)
       /\ lastCount' = cnt
       /\ repeated' = (cnt = lastCount)
  /\ lastCall' = "SetTotalPages"
  /\ UNCHANGED <<pc, queryVars, request, spErr, sp0, doLog, response>>

\* part_000 lines 28-36 without the check for no scope
SingleScopeErrorAllowsNone(s) ==
  IF Len(s.Scopes) > 1 THEN BadRequestError("single scope", "nil")
  ELSE NilErr

\* part_000 lines 28-36: the error of EnsureSingleScope
SingleScopeError(s) ==
  IF Len(s.Scopes) > 1 THEN BadRequestError("single scope", "nil")
  ELSE IF Len(s.Scopes) = 0 THEN BadRequestError("no scope", "nil")
  ELSE NilErr

EnsureSingleScope ==
  /\ pc = "extracted"
  /\ spErr' = SingleScopeError(sp)
  /\ lastCall' = "EnsureSingleScope"
  /\ UNCHANGED <<pc, sp, queryVars, request, sp0, lastCount, repeated, doLog,
                 response>>

\* a request arrives; no query is running
InitParams ==
  /\ pc = "request"
  /\ sp = NilSP /\ sp0 = NilSP /\ spErr = NilErr /\ request = NoRequest
  /\ lastCall = "" /\ lastCount = -1 /\ repeated = FALSE
  /\ doLog = <<>> /\ response = NoResponse
  /\ contextJoins = <<>>
  /\ params = <<>> /\ fromBit = <<>> /\ whereBit = <<>> /\ queryStmt = <<>>
  /\ err = "nil" /\ txn = "none" /\ rows = "none" /\ countRows = "none"
  /\ countValue = 0 /\ results = NilResults /\ count = 0 /\ ret = NoReturn
  /\ dbLog = <<>> /\ table = 0
  /\ foundRows = 0 /\ matchedAtQuery = 0 /\ inserted = 0 /\ failed = ""
  /\ cancelled = FALSE

NextParams ==
  \/ ExtractSearchParamsFromUrl
  \/ SetTotalPages
  \/ EnsureSingleScope

SpecParams == InitParams /\ [][NextParams]_vars

----
\* DoList, request.go lines 62-80.

\* what a SearchFunc can return for the SearchParams it is given
SearchOutcomes(s) ==
  {[results |-> NilResults, count |-> -1, err |-> BadRequestError("bogus", "nil")],
   [results |-> NilResults, count |-> 0, err |-> ServerError(ResourceName, DbError)]}
    \cup {[results |-> PageOf(cnt, s), count |-> cnt, err |-> NilErr] : cnt \in Counts}

\* lines 64-69: the parameters are extracted; on failure
\* ExtractSearchParamsFromUrl has already written the error response
DoListExtract ==
  /\ pc = "DoList"
  /\ \E r \in Requests :
       /\ request' = r
       /\ sp' = ExtractOf(r).sp
       /\ sp0' = ExtractOf(r).sp
       /\ spErr' = ExtractOf(r).err
       /\ IF ExtractOf(r).err # NilErr
          THEN /\ pc' = "done"
               /\ response' = [NoResponse EXCEPT !.kind = "error", !.err = ExtractOf(r).err]
          ELSE /\ pc' = "searchFunc"
               /\ UNCHANGED response
  /\ doLog' = Append(doLog, "ExtractSearchParamsFromUrl")
  /\ lastCall' = "ExtractSearchParamsFromUrl"
  /\ UNCHANGED <<queryVars, lastCount, repeated>>

\* lines 71-79 with the totals set before the error is looked at
DoListSearchReturnsTotalsFirst ==
  /\ pc = "searchFunc"
  /\ \E o \in SearchOutcomes(sp) :
       /\ ret' = o
       /\ sp' = WithTotalPages(sp, o.count)
       /\ lastCall' = "SetTotalPages"
       /\ lastCount' = o.count
       /\ repeated' = (o.count = lastCount)
       /\ IF o.err # NilErr
          THEN /\ doLog' = doLog \o <<"searchFunc", "SetTotalPages", "HandleError">>
               /\ response' = [NoResponse EXCEPT !.kind = "error", !.err = o.err]
          ELSE /\ doLog' = doLog \o <<"searchFunc", "SetTotalPages", "StandardResponse">>
               /\ response' = [kind |-> "standard", items |-> o.results,
                               sp |-> WithTotalPages(sp, o.count), err |-> NilErr]
  /\ pc' = "done"
  /\ UNCHANGED <<contextJoins, params, fromBit, whereBit, queryStmt, err, txn,
                 rows, countRows, countValue, results, count, dbLog, table,
                 foundRows, matchedAtQuery, inserted, failed, cancelled,
                 request, spErr, sp0>>

\* lines 71-79: the search function returns
DoListSearchReturns ==
  /\ pc = "searchFunc"
  /\ \E o \in SearchOutcomes(sp) :
       /\ ret' = o
       /\ IF o.err # NilErr
          THEN /\ doLog' = doLog \o <<"searchFunc", "HandleError">>
               /\ response' = [NoResponse EXCEPT !.kind = "error", !.err = o.err]
               /\ UNCHANGED <<sp, lastCall, lastCount, repeated>>
          ELSE /\ sp' = WithTotalPages(sp, o.count)
               /\ lastCall' = "SetTotalPages"
               /\ lastCount' = o.count
               /\ repeated' = (o.count = lastCount)
               /\ doLog' = doLog \o <<"searchFunc", "SetTotalPages", "StandardResponse">>
               /\ response' = [kind |-> "standard", items |-> o.results,
                               sp |-> WithTotalPages(sp, o.count), err |-> NilErr]
  /\ pc' = "done"
  /\ UNCHANGED <<contextJoins, params, fromBit, whereBit, queryStmt, err, txn,
                 rows, countRows, countValue, results, count, dbLog, table,
                 foundRows, matchedAtQuery, inserted, failed, cancelled,
                 request, spErr, sp0>>

\* a request arrives at DoList
InitDoList ==
  /\ pc = "DoList"
  /\ sp = NilSP /\ sp0 = NilSP /\ spErr = NilErr /\ request = NoRequest
  /\ lastCall = "" /\ lastCount = -1 /\ repeated = FALSE
  /\ doLog = <<>> /\ response = NoResponse
  /\ contextJoins = <<>>
  /\ params = <<>> /\ fromBit = <<>> /\ whereBit = <<>> /\ queryStmt = <<>>
  /\ err = "nil" /\ txn = "none" /\ rows = "none" /\ countRows = "none"
  /\ countValue = 0 /\ results = NilResults /\ count = 0 /\ ret = NoReturn
  /\ dbLog = <<>> /\ table = 0
  /\ foundRows = 0 /\ matchedAtQuery = 0 /\ inserted = 0 /\ failed = ""
  /\ cancelled = FALSE

NextDoList ==
  \/ DoListExtract
  \/ DoListSearchReturns

SpecDoList == InitDoList /\ [][NextDoList]_vars

----
\* Properties of PagedQuery.

CountOf(log, op) == Cardinality({i \in 1..Len(log) : log[i] = op})

Returned == pc = "returned"

SuccessLog ==
  <<"BeginTx", "Prepare", "Query", "rows.Close", "CountQuery", "Next", "Scan",
    "countRows.Close", "Commit">>

HasUnknownScope == \E i \in 1..Len(sp.Scopes) : sp.Scopes[i] \notin DOMAIN ScopeJoins

HasRefusedTerm ==
  \E i \in 1..Len(sp.Terms) : SearchWhereGenerator(sp.Terms[i], <<>>).err # "nil"

\* C1: the total count a successful PagedQuery returns is the number of rows
\* that matched when its page query ran, also when another transaction
\* committed a matching row before PagedQuery's commit.
TotalCountIsolated ==
  (Returned /\ ret.err = NilErr) => ret.count = matchedAtQuery

\* C1 witness: a row was committed between the page query and the commit, and
\* the returned total is the 45 rows the page query matched.
TotalCountIsolatedWitness ==
  /\ Returned /\ ret.err = NilErr
  /\ matchedAtQuery = 45 /\ table = 46
  /\ ret.count = 45

\* C2: a return of PagedQuery carries either the page and the count of one
\* transaction with a nil error, or nil results with a non-nil error.
NoPartialResults ==
  Returned =>
    \/ /\ ret.err = NilErr
       /\ ~ret.results.nil
       /\ ret.results = PageOf(matchedAtQuery, sp)
       /\ ret.count = countValue
       /\ dbLog = SuccessLog
    \/ /\ ret.err # NilErr
       /\ ret.results = NilResults

\* C2 witness: the page had been decoded when the count could not be read, and
\* the return carries no results.
NoPartialResultsWitness ==
  /\ Returned /\ failed \in {"CountQuery", "Next", "Scan"}
  /\ ~results.nil /\ results.n > 0
  /\ ret.results = NilResults /\ ret.err # NilErr

\* C3: once the transaction is open, PagedQuery calls exactly one of Rollback
\* and Commit before it returns: Rollback, with a server-side error, when a
\* step failed, Commit when none did; neither is called earlier.
OneRollbackOrCommit ==
  /\ (Returned /\ txn # "none") =>
       /\ CountOf(dbLog, "Rollback") + CountOf(dbLog, "Commit") = 1
       /\ failed # "" => /\ CountOf(dbLog, "Rollback") = 1
                         /\ dbLog[Len(dbLog)] = "Rollback"
                         /\ ret.err.kind = "Server"
       /\ failed = "" => /\ dbLog = SuccessLog
                         /\ ret.err = NilErr
  /\ ~Returned => CountOf(dbLog, "Rollback") + CountOf(dbLog, "Commit") = 0

\* C3 witness: the result decoder failed and the transaction was rolled back.
OneRollbackOrCommitWitness ==
  /\ Returned /\ failed = "ResultBuilder"
  /\ CountOf(dbLog, "Rollback") = 1 /\ CountOf(dbLog, "Commit") = 0

\* C4: with a requested scope that is not in the scope map, PagedQuery makes
\* no database call and returns a bad-request error.
UnknownScopeRefused ==
  HasUnknownScope =>
    /\ dbLog = <<>>
    /\ pc \in {"PagedQuery", "returned"}
    /\ Returned => (ret.err.kind = "BadRequest" /\ ret.results = NilResults)

\* C4 witness: the unknown scope comes second, after a known one, with a
\* context join, a refused term and an unknown sort key.
UnknownScopeRefusedWitness ==
  /\ Returned /\ sp.Scopes = <<"active", "bogus">>
  /\ sp.Sort = "bogus" /\ sp.Terms = <<"%">> /\ contextJoins # <<>>
  /\ ret.err.kind = "BadRequest" /\ dbLog = <<>>

\* C5 as stated: with a sort key that is not in the sort map PagedQuery
\* returns an unprocessable-value error, whatever the scopes and terms are,
\* and makes no database call.
UnknownSortAlwaysUnprocessable ==
  (Returned /\ sp.Sort \notin DOMAIN SortMap) =>
    (ret.err.kind = "UnprocessableEntity" /\ dbLog = <<>>)

\* C5 amended: with a sort key that is not in the sort map PagedQuery makes no
\* database call and returns an error; the error is the unprocessable-value
\* error exactly when every scope is known and no term is refused, and the
\* bad-request error of the scope or term otherwise.
UnknownSortRefused ==
  sp.Sort \notin DOMAIN SortMap =>
    /\ dbLog = <<>>
    /\ pc \in {"PagedQuery", "returned"}
    /\ Returned =>
         /\ ret.results = NilResults
         /\ ret.err.kind = IF HasUnknownScope \/ HasRefusedTerm
                           THEN "BadRequest" ELSE "UnprocessableEntity"

\* C5 witness: known scopes, an accepted term and an unknown sort key.
UnknownSortRefusedWitness ==
  /\ Returned /\ sp.Sort = "bogus"
  /\ sp.Scopes = <<"active", "mine">> /\ sp.Terms = <<"widget">>
  /\ ret.err.kind = "UnprocessableEntity" /\ ret.err.names = "bogus"

----
\* Properties of the search-parameter model.

Extracted == sp0 # NilSP

\* the least k with k * size >= n
CeilDiv(n, size) == CHOOSE k \in 0..n : k * size >= n /\ (k = 0 \/ (k - 1) * size < n)

\* C6: ExtractSearchParamsFromUrl yields ItemsPerPage 20 for an integer below
\* 20, 250 for one above 250, the integer itself in between, and 100 when the
\* field is absent.
ItemsPerPageNormalized ==
  Extracted =>
    LET raw == request.itemsPerPage
        v == Atoi(raw).val
        got == sp0.PageInfo.ItemsPerPage
    IN IF raw = <<>> THEN got = 100
       ELSE /\ v < 20 => got = 20
            /\ v > 250 => got = 250
            /\ (20 =< v /\ v =< 250) => got = v

\* C6 witness: itemsPerPage=252 was clamped to 250.
ItemsPerPageNormalizedWitness ==
  /\ Extracted /\ request.itemsPerPage = <<"2", "5", "2">>
  /\ sp0.PageInfo.ItemsPerPage = 250

\* C7: after SetTotalPages(count) TotalItemCount is count and TotalPageCount
\* is ceil(count / ItemsPerPage): 6 for 101 items and 5 for 100 items by 20,
\* 0 for no items.
TotalPagesIsCeiling ==
  lastCall = "SetTotalPages" =>
    /\ sp.PageInfo.TotalItemCount = lastCount
    /\ sp.PageInfo.TotalPageCount = CeilDiv(lastCount, sp.PageInfo.ItemsPerPage)
    /\ (lastCount = 101 /\ sp.PageInfo.ItemsPerPage = 20) => sp.PageInfo.TotalPageCount = 6
    /\ (lastCount = 100 /\ sp.PageInfo.ItemsPerPage = 20) => sp.PageInfo.TotalPageCount = 5
    /\ lastCount = 0 => sp.PageInfo.TotalPageCount = 0

\* C7 witness: 101 items at 20 per page make 6 pages.
TotalPagesIsCeilingWitness ==
  /\ lastCall = "SetTotalPages" /\ lastCount = 101
  /\ sp.PageInfo.ItemsPerPage = 20 /\ sp.PageInfo.TotalPageCount = 6

\* C8: a SetTotalPages call leaves Scopes, Terms, Sort, PageIndex and
\* ItemsPerPage as ExtractSearchParamsFromUrl returned them, and a call with
\* the count of the SetTotalPages call before it leaves the PageInfo as that
\* call left it.
SetTotalPagesIdempotent ==
  [][lastCall' = "SetTotalPages" =>
       /\ sp'.Scopes = sp.Scopes /\ sp'.Scopes = sp0.Scopes
       /\ sp'.Terms = sp.Terms /\ sp'.Terms = sp0.Terms
       /\ sp'.Sort = sp.Sort /\ sp'.Sort = sp0.Sort
       /\ sp'.PageInfo.PageIndex = sp.PageInfo.PageIndex
       /\ sp'.PageInfo.PageIndex = sp0.PageInfo.PageIndex
       /\ sp'.PageInfo.ItemsPerPage = sp.PageInfo.ItemsPerPage
       /\ sp'.PageInfo.ItemsPerPage = sp0.PageInfo.ItemsPerPage
       /\ lastCount' = lastCount => sp' = sp]_vars

\* C8 witness: SetTotalPages(101) was called again with 101, on a
\* SearchParams with scopes, terms and a page index of its own.
SetTotalPagesIdempotentWitness ==
  /\ lastCall = "SetTotalPages" /\ repeated /\ lastCount = 101
  /\ sp.PageInfo.TotalItemCount = 101
  /\ sp.Scopes # <<>> /\ sp.Terms # <<>> /\ sp.PageInfo.PageIndex = 2

\* C9: in every SearchParams ExtractSearchParamsFromUrl returned, also after
\* SetTotalPages, PageIndex and ItemsPerPage are at least 1 and the LIMIT
\* offset PagedQuery derives is not negative.
PageInfoPositive ==
  sp # NilSP =>
    /\ sp.PageInfo.PageIndex >= 1
    /\ sp.PageInfo.ItemsPerPage >= 1
    /\ LimitOffset(sp) >= 0

\* C10: EnsureSingleScope returns a bad-request error for no scope and for
\* two or more scopes, nil for exactly one, and leaves the SearchParams as
\* it was.
SingleScopeEnsured ==
  /\ [](lastCall = "EnsureSingleScope" =>
          /\ Len(sp.Scopes) = 1 <=> spErr = NilErr
          /\ Len(sp.Scopes) # 1 => spErr.kind = "BadRequest")
  /\ [][lastCall' = "EnsureSingleScope" => sp' = sp]_vars

\* C10 witness: no scope at all was refused.
SingleScopeEnsuredWitness ==
  /\ lastCall = "EnsureSingleScope" /\ sp.Scopes = <<>>
  /\ spErr.kind = "BadRequest"

----
\* Properties of the assembled statement.

\* the statement has been assembled: no scope, term or sort key was refused
Assembled == queryStmt # <<>>

\* the JOIN fragment the claim expects of a requested scope
ExpectedJoin(scope) ==
  LET val == ScopeJoins[scope]
      t == JoinTestDedupe(contextJoins)
  IN IF val.JoinTest # "nil" /\ t.useIt THEN t.override ELSE val.JoinClause

\* C12: FROM is the base FROM, then the context joins' fragments, then one
\* fragment for each requested scope: the override when the scope has a
\* JoinTest that returns true, its default JOIN otherwise; never both.
JoinTestOverride ==
  Assembled =>
    fromBit = GeneralFrom
                \o [i \in 1..Len(contextJoins) |-> contextJoins[i].JoinClause]
                \o [i \in 1..Len(sp.Scopes) |-> ExpectedJoin(sp.Scopes[i])]

\* C12 witness: the owners table is joined by the context, the "mine" scope
\* contributes the override once and "active", which has no JoinTest, its
\* default once.
JoinTestOverrideWitness ==
  /\ Assembled /\ sp.Scopes = <<"mine", "active">>
  /\ Len(contextJoins) = 1 /\ contextJoins[1].JoinClause = OwnersJoin
  /\ CountOf(fromBit, OwnersOverride) = 1
  /\ CountOf(fromBit, OwnersJoin) = 1
  /\ CountOf(fromBit, StatusJoin) = 1

\* C13: with M matching rows and no concurrent write, a successful PagedQuery
\* for page p of size s returns the rows (p-1)*s+1 .. min(p*s, M) and the
\* total M, and SetTotalPages of that total gives ceil(M/s) pages; 45 rows,
\* page 2 of size 20: rows 21-40, total 45, 3 pages.
PageSliceAndTotals ==
  (Returned /\ ret.err = NilErr /\ inserted = 0) =>
    LET p == sp.PageInfo.PageIndex
        s == sp.PageInfo.ItemsPerPage
        M == table
        pages == WithTotalPages(sp, ret.count).PageInfo.TotalPageCount
    IN /\ ret.results.offset = (p - 1) * s
       /\ ret.results.n = Min(s, Max(0, M - (p - 1) * s))
       /\ ret.results.offset + ret.results.n = Max((p - 1) * s, Min(p * s, M))
       /\ ret.count = M
       /\ pages = CeilDiv(M, s)
       /\ (M = 45 /\ p = 2 /\ s = 20) =>
            (ret.results.offset = 20 /\ ret.results.n = 20 /\ ret.count = 45 /\ pages = 3)

\* C13 witness: scopes = [active], terms = [widget], the default sort,
\* page 2 of size 20 over 45 rows.
PageSliceAndTotalsWitness ==
  /\ Returned /\ ret.err = NilErr /\ inserted = 0 /\ table = 45
  /\ sp.Scopes = <<"active">> /\ sp.Terms = <<"widget">> /\ sp.Sort = ""
  /\ sp.PageInfo.PageIndex = 2 /\ sp.PageInfo.ItemsPerPage = 20
  /\ ret.results = [nil |-> FALSE, offset |-> 20, n |-> 20]
  /\ ret.count = 45

----
\* Properties of the transaction.

\* C14: when the request context is cancelled after the transaction was
\* begun and before the commit completed, the transaction ends rolled back,
\* not committed, and PagedQuery returns an error.
CancelledNeverSucceeds ==
  (Returned /\ cancelled /\ txn # "none") =>
    /\ txn = "rolledback"
    /\ ret.err # NilErr
    /\ ret.results = NilResults

IndexOf(log, op) == CHOOSE i \in 1..Len(log) : log[i] = op

\* C15: the page cursor has been decoded and closed before the count query
\* is issued, and a cursor that was opened is closed when PagedQuery returns.
CursorsClosedInOrder ==
  /\ CountOf(dbLog, "CountQuery") > 0 =>
       /\ rows = "closed"
       /\ ~results.nil
       /\ CountOf(dbLog, "rows.Close") = 1
       /\ IndexOf(dbLog, "Query") < IndexOf(dbLog, "rows.Close")
       /\ IndexOf(dbLog, "rows.Close") < IndexOf(dbLog, "CountQuery")
  /\ pc = "CountQuery" => rows = "closed"
  /\ Returned =>
       /\ rows \in {"none", "closed"}
       /\ countRows \in {"none", "closed"}
       /\ rows = "closed" <=> CountOf(dbLog, "rows.Close") = 1
       /\ countRows = "closed" <=> CountOf(dbLog, "countRows.Close") = 1

\* C15 witness: both cursors were opened, the count cursor delivered no row,
\* and both are closed at the return.
CursorsClosedInOrderWitness ==
  /\ Returned /\ failed = "Next"
  /\ rows = "closed" /\ countRows = "closed"
  /\ IndexOf(dbLog, "rows.Close") < IndexOf(dbLog, "CountQuery")

----
\* Properties of the errors PagedQuery returns.

FirstUnknownScope ==
  sp.Scopes[CHOOSE i \in 1..Len(sp.Scopes) :
              /\ sp.Scopes[i] \notin DOMAIN ScopeJoins
              /\ \A j \in 1..(i - 1) : sp.Scopes[j] \in DOMAIN ScopeJoins]

\* C16: the bad-request error for an unknown scope names the first requested
\* scope that is unknown, also when it is not the first scope of the list.
UnknownScopeNamed ==
  (Returned /\ HasUnknownScope) =>
    (ret.err.kind = "BadRequest" /\ ret.err.names = FirstUnknownScope)

\* C17: when BeginTx fails PagedQuery returns nil results and a server-side
\* error naming the resource, having made no other database call.
BeginTxFailureReturned ==
  failed = "BeginTx" =>
    /\ Returned
    /\ ret.results = NilResults
    /\ ret.err.kind = "Server" /\ ret.err.names = ResourceName
    /\ dbLog = <<"BeginTx">>

\* C20: a server-side error PagedQuery returns wraps a failure that is not
\* nil and names the resource, on every failure path.
ServerErrorWrapsCause ==
  (Returned /\ ret.err.kind = "Server") =>
    (ret.err.cause # "nil" /\ ret.err.names = ResourceName)

----
\* Alignment of WHERE fragments and bound parameters.

RECURSIVE Flatten(_)
Flatten(ss) == IF ss = <<>> THEN <<>> ELSE Head(ss) \o Flatten(Tail(ss))

NonEmpty(f) == f # ""

\* parameters of the context joins, then of the scopes, in request order
JoinParamsInOrder ==
  Flatten([i \in 1..Len(contextJoins) |-> contextJoins[i].JoinParams])
    \o Flatten([i \in 1..Len(sp.Scopes) |-> ScopeJoins[sp.Scopes[i]].JoinParams])

\* values the term generator appends, in term order
TermParamsInOrder ==
  Flatten([i \in 1..Len(sp.Terms) |-> SearchWhereGenerator(sp.Terms[i], <<>>).params])

\* where fragments of the context joins, the scopes and the terms, in order
WhereFragmentsInOrder ==
  SelectSeq([i \in 1..Len(contextJoins) |-> contextJoins[i].WhereClause]
              \o [i \in 1..Len(sp.Scopes) |-> ScopeJoins[sp.Scopes[i]].WhereClause]
              \o [i \in 1..Len(sp.Terms) |->
                    SearchWhereGenerator(sp.Terms[i], <<>>).whereTerm],
            NonEmpty)

\* the part of C18 that is about order
ParamsAndWhereInOrder ==
  /\ params = JoinParamsInOrder \o TermParamsInOrder
  /\ whereBit # <<>> => whereBit = <<"WHERE TRUE ">> \o WhereFragmentsInOrder
  /\ whereBit = <<>> <=> WhereFragmentsInOrder = <<>>

----
\* Properties of DoList.

\* C19: DoList does not call the search function when the parameters cannot
\* be extracted; when the search fails it does not call SetTotalPages, the
\* totals stay zero and no standard response is written; when the search
\* succeeds it calls SetTotalPages(count) once and then writes the standard
\* response with the results and the PageInfo.
TotalsAttachedOnce ==
  /\ pc # "done" =>
       /\ CountOf(doLog, "SetTotalPages") = 0
       /\ response.kind = "none"
  /\ (pc = "done" /\ spErr # NilErr) =>
       /\ doLog = <<"ExtractSearchParamsFromUrl">>
       /\ response.kind = "error"
  /\ (pc = "done" /\ spErr = NilErr /\ ret.err # NilErr) =>
       /\ doLog = <<"ExtractSearchParamsFromUrl", "searchFunc", "HandleError">>
       /\ sp.PageInfo.TotalItemCount = 0 /\ sp.PageInfo.TotalPageCount = 0
       /\ response.kind = "error" /\ response.err = ret.err
  /\ (pc = "done" /\ spErr = NilErr /\ ret.err = NilErr) =>
       /\ doLog = <<"ExtractSearchParamsFromUrl", "searchFunc", "SetTotalPages",
                    "StandardResponse">>
       /\ sp.PageInfo.TotalItemCount = ret.count
       /\ sp.PageInfo.TotalPageCount = CeilDiv(ret.count, sp.PageInfo.ItemsPerPage)
       /\ response.kind = "standard"
       /\ response.items = ret.results
       /\ response.sp = sp

\* C19 witness: the search failed with a server-side error after the
\* parameters were extracted, and the totals are still zero.
TotalsAttachedOnceWitness ==
  /\ pc = "done" /\ spErr = NilErr /\ ret.err.kind = "Server"
  /\ request.itemsPerPage = <<"2", "0">>
  /\ sp.PageInfo.TotalItemCount = 0
  /\ CountOf(doLog, "SetTotalPages") = 0 /\ response.kind = "error"

====
